---- MODULE Spec2Model ----
(***************************************************************************)
(* The two-region buffer cache of volume_id (extras/volume_id/volume_id/   *)
(* util.c): volume_id_get_buffer serves (off, len) requests from the       *)
(* superblock buffer sbbuf (the front cache) or the seek buffer seekbuf    *)
(* (the window cache); volume_id_free_buffer releases both.                *)
(*                                                                         *)
(* Machine integers are scaled down: __u64 arithmetic is modulo U64Mod,    *)
(* unsigned int arithmetic modulo UIntMod, and the two buffer sizes are a  *)
(* few bytes, so that every comparison of the code can go either way.      *)
(***************************************************************************)
EXTENDS Integers, Sequences, FiniteSets, TLC

\* ------------------------------------------------------------- bounds
\* size of the superblock buffer (C_front); util.h is not part of the sources
SB_BUFFER_SIZE == 3
\* size of the seek buffer (C_window)
SEEK_BUFFER_SIZE == 2
\* requests use offsets 0..MaxOff and the MaxWrap highest __u64 values
MaxOff == 4
MaxWrap == 1
\* requests use lengths 0..MaxLen
MaxLen == 3
\* the source holds MaxSrcLen-2..MaxSrcLen bytes
MaxSrcLen == 4
\* bytes are 0..MaxByte
MaxByte == 2
\* malloc, lseek and read report at most MaxFaults failures in one run
MaxFaults == 1

\* ------------------------------------------------- machine arithmetic
\* __u64 off: sums and differences of offsets wrap at U64Mod
U64Mod == 64
\* unsigned int len, buf_len: values wrap at UIntMod
UIntMod == 16

Add64(a, b) == (a + b) % U64Mod
Sub64(a, b) == (a - b) % U64Mod
\* buf_len = read(...): the ssize_t result stored in an unsigned int
ToUInt(n) == n % UIntMod
\* off_t is signed: an offset with the top bit set is negative
OffTNegative(off) == 2 * off >= U64Mod

Min(a, b) == IF a < b THEN a ELSE b
Max(a, b) == IF a > b THEN a ELSE b

\* ------------------------------------------------------------- memory
Byte == 0 .. MaxByte
\* an indeterminate cell: fresh malloc memory, or memory outside a buffer
Indet == -1
\* a pointer to a buffer: NULL, or allocated memory of some size
NULL == [alloc |-> FALSE, mem |-> <<>>]
Malloc(size) == [alloc |-> TRUE, mem |-> [i \in 1 .. size |-> Indet]]

\* the source: an unchanging sequence of bytes, byte i (from 0) is SrcByte(i)
SrcByte(i) == (i + 1) % (MaxByte + 1)
SourceOfLen(n) == [i \in 1 .. n |-> SrcByte(i - 1)]
Sources == {SourceOfLen(n) : n \in (MaxSrcLen - 2) .. MaxSrcLen}

\* the call returns NULL, or a pointer idx bytes into one of the buffers
RetNull == [ok |-> FALSE, buf |-> "none", idx |-> 0]
RetPtr(b, i) == [ok |-> TRUE, buf |-> b, idx |-> i]

VARIABLES
    src,        \* the bytes of the source behind id->fd
    fdpos,      \* the file position of id->fd
    id,         \* struct volume_id: sbbuf, sbbuf_len, seekbuf, seekbuf_off, seekbuf_len
    call,       \* the call that has just returned: arguments, result, library calls
    prev,       \* history: what the call before it was
    frontEnd,   \* history: largest off+len a front refill satisfied since the last release
    faults      \* the failures malloc, lseek and read have reported so far

vars == <<src, fdpos, id, call, prev, frontEnd, faults>>

\* ---------------------------------------------------- library calls
\* lseek(fd, off, SEEK_SET): the new position, or -1 leaving the position alone
Lseek(pos, off, seekOK) ==
    IF seekOK /\ ~OffTNegative(off)
    THEN [res |-> off, pos |-> off]
    ELSE [res |-> -1, pos |-> pos]

\* read(fd, buf, n): up to n bytes from the current position go to the start
\* of buf; -1 on error leaves buffer and position alone
Read(s, pos, mem, n, readOK) ==
    IF ~readOK
    THEN [res |-> -1, pos |-> pos, mem |-> mem]
    ELSE LET k == Min(n, Max(0, Len(s) - pos))
         IN  [res |-> k, pos |-> pos + k,
              mem |-> [i \in 1 .. Len(mem) |-> IF i <= k THEN s[pos + i] ELSE mem[i]]]

SysCall(fn, arg, res) == [fn |-> fn, arg |-> arg, res |-> res]

\* -------------------------------------------- volume_id_get_buffer
\* if (off + len <= SB_BUFFER_SIZE)
UseSbbufOffOnly(off, len) == off <= SB_BUFFER_SIZE
UseSbbuf(off, len) == Add64(off, len) <= SB_BUFFER_SIZE

\* if ((off + len) > id->sbbuf_len)
SbNeedsReadAlways(st, off, len) == TRUE
SbNeedsRead(st, off, len) == Add64(off, len) > st.sbbuf_len

\* id->sbbuf_len = buf_len;
SbLenKeptOnShort(st, buf_len, want) == IF buf_len < want THEN st.sbbuf_len ELSE buf_len
SbLenAfterRead(st, buf_len, want) == buf_len

\* if (len > SEEK_BUFFER_SIZE)
SeekTooLargeForSb(len) == len > SB_BUFFER_SIZE
SeekTooLarge(len) == len > SEEK_BUFFER_SIZE

\* if ((off < id->seekbuf_off) || ((off + len) > (id->seekbuf_off + id->seekbuf_len)))
SeekNeedsReadEndOnly(st, off, len) ==
    Add64(off, len) > Add64(st.seekbuf_off, st.seekbuf_len)
SeekNeedsReadAlways(st, off, len) == TRUE
SeekNeedsRead(st, off, len) ==
    \/ off < st.seekbuf_off
    \/ Add64(off, len) > Add64(st.seekbuf_off, st.seekbuf_len)

Result(st, pos, ret, sys) == [id |-> st, fdpos |-> pos, ret |-> ret, sys |-> sys]

\* buf_len = read(id->fd, id->sbbuf, off + len);
SbReadCountWhole(off, len) == SB_BUFFER_SIZE
SbReadCount(off, len) == Add64(off, len)

\* the superblock branch, after the buffer is there
SbServe(st, s, pos, off, len, seekOK, readOK, sys) ==
    IF SbNeedsRead(st, off, len)
    THEN LET sk == Lseek(pos, 0, seekOK)
             rd == Read(s, sk.pos, st.sbbuf.mem, SbReadCount(off, len), readOK)
             buf_len == ToUInt(rd.res)
             st2 == [st EXCEPT !.sbbuf.mem = rd.mem,
                               !.sbbuf_len = SbLenAfterRead(st, buf_len, Add64(off, len))]
             sys2 == sys \o <<SysCall("lseek", 0, sk.res),
                              SysCall("read", SbReadCount(off, len), rd.res)>>
         IN  IF buf_len < Add64(off, len)
             THEN Result(st2, rd.pos, RetNull, sys2)
             ELSE Result(st2, rd.pos, RetPtr("sbbuf", off), sys2)
    ELSE Result(st, pos, RetPtr("sbbuf", off), sys)

\* the superblock branch
SbBranchNoCheck(st, s, pos, off, len, mallocOK, seekOK, readOK) ==
    IF ~st.sbbuf.alloc
    THEN SbServe([st EXCEPT !.sbbuf = IF mallocOK THEN Malloc(SB_BUFFER_SIZE) ELSE NULL],
                 s, pos, off, len, seekOK, readOK,
                 <<SysCall("malloc", SB_BUFFER_SIZE, IF mallocOK THEN 1 ELSE 0)>>)
    ELSE SbServe(st, s, pos, off, len, seekOK, readOK, <<>>)
SbBranch(st, s, pos, off, len, mallocOK, seekOK, readOK) ==
    IF ~st.sbbuf.alloc
    THEN IF mallocOK
         THEN SbServe([st EXCEPT !.sbbuf = Malloc(SB_BUFFER_SIZE)], s, pos, off, len,
                      seekOK, readOK, <<SysCall("malloc", SB_BUFFER_SIZE, 1)>>)
         ELSE Result(st, pos, RetNull, <<SysCall("malloc", SB_BUFFER_SIZE, 0)>>)
    ELSE SbServe(st, s, pos, off, len, seekOK, readOK, <<>>)

\* id->seekbuf_len = buf_len;
SeekLenKeptOnShort(st, buf_len, want) == IF buf_len < want THEN 0 ELSE buf_len
SeekLenAfterRead(st, buf_len, want) == buf_len

\* the seek branch, after the buffer is there
SeekServe(st, s, pos, off, len, seekOK, readOK, sys) ==
    IF SeekNeedsRead(st, off, len)
    THEN LET sk == Lseek(pos, off, seekOK)
             sys1 == sys \o <<SysCall("lseek", off, sk.res)>>
         IN  IF sk.res = -1
             THEN Result(st, sk.pos, RetNull, sys1)
             ELSE LET rd == Read(s, sk.pos, st.seekbuf.mem, len, readOK)
                      buf_len == ToUInt(rd.res)
                      st2 == [st EXCEPT !.seekbuf.mem = rd.mem,
                                        !.seekbuf_off = off,
                                        !.seekbuf_len = SeekLenAfterRead(st, buf_len, len)]
                      sys2 == sys1 \o <<SysCall("read", len, rd.res)>>
                  IN  IF buf_len < len
                      THEN Result(st2, rd.pos, RetNull, sys2)
                      ELSE Result(st2, rd.pos,
                                  RetPtr("seekbuf", Sub64(off, st2.seekbuf_off)), sys2)
    ELSE Result(st, pos, RetPtr("seekbuf", Sub64(off, st.seekbuf_off)), sys)

\* the seek branch
SeekBranchNoCheck(st, s, pos, off, len, mallocOK, seekOK, readOK) ==
    IF SeekTooLarge(len)
    THEN Result(st, pos, RetNull, <<>>)
    ELSE IF ~st.seekbuf.alloc
         THEN SeekServe([st EXCEPT !.seekbuf = IF mallocOK THEN Malloc(SEEK_BUFFER_SIZE)
                                                           ELSE NULL],
                        s, pos, off, len, seekOK, readOK,
                        <<SysCall("malloc", SEEK_BUFFER_SIZE, IF mallocOK THEN 1 ELSE 0)>>)
         ELSE SeekServe(st, s, pos, off, len, seekOK, readOK, <<>>)
SeekBranch(st, s, pos, off, len, mallocOK, seekOK, readOK) ==
    IF SeekTooLarge(len)
    THEN Result(st, pos, RetNull, <<>>)
    ELSE IF ~st.seekbuf.alloc
         THEN IF mallocOK
              THEN SeekServe([st EXCEPT !.seekbuf = Malloc(SEEK_BUFFER_SIZE)], s, pos,
                             off, len, seekOK, readOK,
                             <<SysCall("malloc", SEEK_BUFFER_SIZE, 1)>>)
              ELSE Result(st, pos, RetNull, <<SysCall("malloc", SEEK_BUFFER_SIZE, 0)>>)
         ELSE SeekServe(st, s, pos, off, len, seekOK, readOK, <<>>)

volume_id_get_buffer(st, s, pos, off, len, mallocOK, seekOK, readOK) ==
    IF UseSbbuf(off, len)
    THEN SbBranch(st, s, pos, off, len, mallocOK, seekOK, readOK)
    ELSE SeekBranch(st, s, pos, off, len, mallocOK, seekOK, readOK)

\* -------------------------------------------- volume_id_free_buffer
FreeSbbufKeepLen(st) ==
    IF st.sbbuf.alloc THEN [st EXCEPT !.sbbuf = NULL] ELSE st
FreeSbbuf(st) ==
    IF st.sbbuf.alloc THEN [st EXCEPT !.sbbuf = NULL, !.sbbuf_len = 0] ELSE st
FreeSeekbufKeepLen(st) ==
    IF st.seekbuf.alloc THEN [st EXCEPT !.seekbuf = NULL] ELSE st
FreeSeekbuf(st) ==
    IF st.seekbuf.alloc THEN [st EXCEPT !.seekbuf = NULL, !.seekbuf_len = 0] ELSE st
volume_id_free_buffer(st) == FreeSeekbuf(FreeSbbuf(st))
FreeSys(st) ==
    (IF st.sbbuf.alloc THEN <<SysCall("free", SB_BUFFER_SIZE, 0)>> ELSE <<>>)
    \o (IF st.seekbuf.alloc THEN <<SysCall("free", SEEK_BUFFER_SIZE, 0)>> ELSE <<>>)

\* ------------------------------------------------ what a view shows
\* the cell j bytes into a buffer; outside the allocation it is indeterminate
Cell(mem, j) == IF j < Len(mem) THEN mem[j + 1] ELSE Indet
BufMem(st, b) == IF b = "sbbuf" THEN st.sbbuf.mem ELSE st.seekbuf.mem
\* the len cells the returned pointer leads to (pointer arithmetic wraps)
ViewCells(st, ret, len) ==
    IF ret.ok
    THEN [i \in 1 .. len |-> Cell(BufMem(st, ret.buf), Add64(ret.idx, i - 1))]
    ELSE <<>>
\* A caller reading an indeterminate cell may see any byte: a view shows the
\* bytes of the source for certain only if none of its cells is indeterminate.

\* ----------------------------------------------------------- requests
Offsets == (0 .. MaxOff) \cup ((U64Mod - MaxWrap) .. (U64Mod - 1))
Lengths == 0 .. MaxLen

\* the caller is between two calls
Idle == [op |-> "idle", off |-> 0, len |-> 0, ret |-> RetNull, sys |-> <<>>]

\* struct volume_id after volume_id_open_*: zeroed
IdInit == [sbbuf |-> NULL, sbbuf_len |-> 0,
           seekbuf |-> NULL, seekbuf_off |-> 0, seekbuf_len |-> 0]

Init ==
    /\ src \in Sources
    /\ fdpos = 0
    /\ id = IdInit
    /\ call = Idle
    /\ prev = [op |-> "none", got |-> 0]
    /\ frontEnd = 0
    /\ faults = 0

\* a read of the call's library calls
HasCall(sys, fn) == \E i \in 1 .. Len(sys) : sys[i].fn = fn
CountCalls(sys, fn) == Cardinality({i \in 1 .. Len(sys) : sys[i].fn = fn})
CallOf(sys, fn) == sys[CHOOSE i \in 1 .. Len(sys) : sys[i].fn = fn]

\* history of the front refills, kept for the statements about later calls
FrontEndAfter(r, off, len) ==
    IF off + len <= SB_BUFFER_SIZE /\ r.ret.ok /\ r.ret.buf = "sbbuf"
       /\ HasCall(r.sys, "read") /\ CallOf(r.sys, "read").res >= 0
    THEN Max(frontEnd, off + len)
    ELSE frontEnd
\* what a call leaves for the next one to come after: a release, a front call
\* that failed because the source was short (and the bytes its read got), a
\* window call that failed because its read came back short but not empty
\* (and the bytes it got), or any other call
Summary(c) ==
    IF c.op # "get" THEN [op |-> c.op, got |-> 0]
    ELSE IF c.off + c.len <= SB_BUFFER_SIZE /\ ~c.ret.ok
            /\ HasCall(c.sys, "read") /\ CallOf(c.sys, "read").res >= 0
         THEN [op |-> "short", got |-> CallOf(c.sys, "read").res]
         ELSE IF ~UseSbbuf(c.off, c.len) /\ ~c.ret.ok
                 /\ HasCall(c.sys, "read") /\ CallOf(c.sys, "read").res >= 1
              THEN [op |-> "wshort", got |-> CallOf(c.sys, "read").res]
              ELSE [op |-> "get", got |-> 0]

\* the failures the environment injected into a call: a failed malloc, a failed
\* read, a failed lseek to an offset that off_t can hold
EnvFailed(c) ==
    \/ c.fn = "malloc" /\ c.res = 0
    \/ c.fn = "read" /\ c.res = -1
    \/ c.fn = "lseek" /\ c.res = -1 /\ ~OffTNegative(c.arg)
RECURSIVE EnvFailures(_)
EnvFailures(sys) ==
    IF sys = <<>> THEN 0
    ELSE (IF EnvFailed(Head(sys)) THEN 1 ELSE 0) + EnvFailures(Tail(sys))
Refusals(mallocOK, seekOK, readOK) ==
    (IF mallocOK THEN 0 ELSE 1) + (IF seekOK THEN 0 ELSE 1) + (IF readOK THEN 0 ELSE 1)

GetBuffer(off, len, mallocOK, seekOK, readOK) ==
    /\ call.op = "idle"
    /\ faults + Refusals(mallocOK, seekOK, readOK) <= MaxFaults
    /\ \E r \in {volume_id_get_buffer(id, src, fdpos, off, len, mallocOK, seekOK, readOK)} :
        \* every failure asked of the environment is one the call ran into
        /\ Refusals(mallocOK, seekOK, readOK) = EnvFailures(r.sys)
        /\ faults' = faults + EnvFailures(r.sys)
        /\ id' = r.id
        /\ fdpos' = r.fdpos
        /\ call' = [op |-> "get", off |-> off, len |-> len,
                    ret |-> r.ret, sys |-> r.sys]
        /\ frontEnd' = FrontEndAfter(r, off, len)
        /\ UNCHANGED <<src, prev>>

FreeBuffer ==
    /\ call.op = "idle"
    /\ id' = volume_id_free_buffer(id)
    /\ call' = [op |-> "free", off |-> 0, len |-> 0,
                ret |-> RetNull, sys |-> FreeSys(id)]
    /\ frontEnd' = 0
    /\ UNCHANGED <<src, fdpos, prev, faults>>

\* the caller has looked at the result and goes on to its next call
Return ==
    /\ call.op # "idle"
    /\ call' = Idle
    /\ prev' = Summary(call)
    /\ UNCHANGED <<src, fdpos, id, frontEnd, faults>>

\* any request, with malloc, lseek and read free to fail
GetBufferAny ==
    /\ call.op = "idle"
    /\ \E off \in Offsets, len \in Lengths :
        \/ GetBuffer(off, len, TRUE, TRUE, TRUE)
        \/ \E mallocOK, seekOK, readOK \in BOOLEAN :
               /\ Refusals(mallocOK, seekOK, readOK) >= 1
               /\ GetBuffer(off, len, mallocOK, seekOK, readOK)

\* any request, against a source and an allocator that report no error
GetBufferReliable ==
    /\ call.op = "idle"
    /\ \E off \in Offsets, len \in Lengths : GetBuffer(off, len, TRUE, TRUE, TRUE)

Next == GetBufferAny \/ FreeBuffer \/ Return
Spec == Init /\ [][Next]_vars

ReliableNext == GetBufferReliable \/ FreeBuffer \/ Return
ReliableSpec == Init /\ [][ReliableNext]_vars

\* ------------------------------------------------------------ claims
\* what the statements below read off a call
IsIO(c) == c.fn \in {"lseek", "read"}
\* the seeks and reads of a call, in order
IoOf(c) == SelectSeq(c.sys, IsIO)
NoIo(c) == IoOf(c) = <<>>
Reads(c) == CountCalls(c.sys, "read")
MallocFailed(c) == \E i \in 1 .. Len(c.sys) : c.sys[i].fn = "malloc" /\ c.sys[i].res = 0
SeekFailed(c) == \E i \in 1 .. Len(c.sys) : c.sys[i].fn = "lseek" /\ c.sys[i].res = -1
ReadFailed(c) == \E i \in 1 .. Len(c.sys) : c.sys[i].fn = "read" /\ c.sys[i].res = -1
\* offset + length as a number, and as the code's __u64 sum
End(c) == c.off + c.len
End64(c) == (c.off + c.len) % U64Mod
\* the view of call c in state st shows source[off .. off+len)
ShowsSource(st, s, c) ==
    \A i \in 1 .. c.len :
        /\ c.off + i <= Len(s)
        /\ ViewCells(st, c.ret, c.len)[i] = s[c.off + i]

\* C1: against an unchanging source, every call that returns a view returns
\* exactly the bytes source[offset .. offset+length).
C1_ViewIsSourceSlice ==
    (call.op = "get" /\ call.ret.ok) => ShowsSource(id, src, call)

\* C2: once a front call (offset + length <= C_front) has refilled the front
\* cache successfully, every later call for a range ending at or before the
\* refilled end issues no read, until the next release and whatever window
\* calls come in between.
C2_FrontHitNoRead ==
    [][(call'.op = "get" /\ End(call') <= SB_BUFFER_SIZE /\ End(call') <= frontEnd)
        => Reads(call') = 0]_vars
\* a call for a range refilled earlier is answered without a read
C2_Witness ==
    /\ call.op = "get" /\ call.ret.ok /\ call.len >= 1
    /\ End(call) <= frontEnd /\ id.seekbuf.alloc
    /\ Reads(call) = 0

\* the seek buffer's fields
Window(st) == <<st.seekbuf, st.seekbuf_off, st.seekbuf_len>>
\* the superblock buffer's fields
Front(st) == <<st.sbbuf, st.sbbuf_len>>
\* call c performs exactly one seek to its offset, then exactly one read of
\* up to its length
OneSeekOneRead(c) ==
    /\ Len(IoOf(c)) = 2
    /\ IoOf(c)[1].fn = "lseek" /\ IoOf(c)[1].arg = c.off
    /\ IoOf(c)[2].fn = "read" /\ IoOf(c)[2].arg = c.len

\* C3 as stated: a call with offset >= C_front and length <= C_window whose
\* range the window does not cover performs exactly one seek to offset and
\* then exactly one read of up to length bytes, and leaves window_offset = offset.
C3_Original ==
    [][(/\ call'.op = "get"
        /\ call'.off >= SB_BUFFER_SIZE /\ call'.len <= SEEK_BUFFER_SIZE
        /\ \/ call'.off < id.seekbuf_off
           \/ End(call') > id.seekbuf_off + id.seekbuf_len)
        => (OneSeekOneRead(call') /\ id'.seekbuf_off = call'.off)]_vars

\* C3 amended: a call that the dispatcher sends to the window region
\* (offset + length > C_front, the sum taken modulo 2^64 as the code takes
\* it) with length <= C_window, whose buffer allocation succeeds and whose
\* range the window does not cover, performs exactly one seek to offset; when
\* the seek succeeds, exactly one read of up to length bytes follows and
\* window_offset = offset afterwards; when the seek fails, no read is issued
\* and the window keeps its offset and valid length.
C3_WindowMiss ==
    [][(/\ call'.op = "get"
        /\ End64(call') > SB_BUFFER_SIZE /\ call'.len <= SEEK_BUFFER_SIZE
        /\ ~MallocFailed(call')
        /\ \/ call'.off < id.seekbuf_off
           \/ End64(call') > (id.seekbuf_off + id.seekbuf_len) % U64Mod)
        => IF SeekFailed(call')
           THEN /\ Len(IoOf(call')) = 1
                /\ IoOf(call')[1].fn = "lseek" /\ IoOf(call')[1].arg = call'.off
                /\ id'.seekbuf_off = id.seekbuf_off
                /\ id'.seekbuf_len = id.seekbuf_len
           ELSE OneSeekOneRead(call') /\ id'.seekbuf_off = call'.off]_vars
\* a miss below the window's offset has evicted a window that held data
C3_Witness ==
    /\ call.op = "get" /\ call.ret.ok /\ call.ret.buf = "seekbuf"
    /\ prev.op = "get" /\ call.len >= 1
    /\ OneSeekOneRead(call)
    /\ id.seekbuf_off = call.off
    /\ ~HasCall(call.sys, "malloc")

\* C4: a window-region call whose range the current window covers
\* (window_offset <= offset and offset + length <= window_offset + valid_len)
\* performs no seek and no read, leaves window_offset and valid_len unchanged
\* and returns the view at buffer index offset - window_offset.
C4_WindowHit ==
    [][(/\ call'.op = "get"
        /\ End(call') > SB_BUFFER_SIZE
        /\ id.seekbuf_off <= call'.off
        /\ End(call') <= id.seekbuf_off + id.seekbuf_len)
        => /\ NoIo(call')
           /\ id'.seekbuf_off = id.seekbuf_off /\ id'.seekbuf_len = id.seekbuf_len
           /\ call'.ret = RetPtr("seekbuf", call'.off - id.seekbuf_off)]_vars
\* a hit in the middle of the window
C4_Witness ==
    /\ call.op = "get" /\ call.ret.ok /\ call.ret.buf = "seekbuf"
    /\ call.len >= 1 /\ call.ret.idx >= 1
    /\ call.sys = <<>>

\* C5: when the source holds fewer than offset + length bytes, a front call
\* fails; a following call for a range inside the bytes that were read
\* succeeds from the cache with no seek and no read and shows the source.
C5_ShortFront ==
    [][(call'.op = "get" /\ End(call') <= SB_BUFFER_SIZE)
        => /\ Len(src) < End(call') => ~call'.ret.ok
           /\ (prev.op = "short" /\ End(call') <= prev.got)
              => (/\ call'.ret.ok /\ call'.sys = <<>>
                  /\ ShowsSource(id', src, call'))]_vars
\* after the failure, the whole of the short source is served from the cache
C5_Witness ==
    /\ call.op = "get" /\ prev.op = "short"
    /\ call.ret.ok /\ call.off = 0 /\ call.len = Len(src)
    /\ call.sys = <<>>

\* C6: in every reachable cache state a call with offset + length > C_front
\* (the sum of the two numbers) and length > C_window fails without
\* allocating, seeking or reading and leaves both regions unchanged.
C6_TooLarge ==
    [][(call'.op = "get" /\ End(call') > SB_BUFFER_SIZE /\ call'.len > SEEK_BUFFER_SIZE)
        => (~call'.ret.ok /\ call'.sys = <<>> /\ id' = id /\ fdpos' = fdpos)]_vars

\* C7: a call with offset + length = C_front is served by the front cache and
\* leaves the window alone, one with offset + length = C_front + 1 is served
\* by the window cache and leaves the front alone; the front cache is used
\* exactly when offset + length (the sum of the two numbers) is <= C_front.
ServedBySb(st, st2, c) ==
    /\ Window(st2) = Window(st)
    /\ c.ret.ok => c.ret.buf = "sbbuf"
    /\ \A i \in 1 .. Len(c.sys) : c.sys[i].fn = "malloc" => c.sys[i].arg = SB_BUFFER_SIZE
ServedBySeek(st, st2, c) ==
    /\ Front(st2) = Front(st)
    /\ c.ret.ok => c.ret.buf = "seekbuf"
    /\ \A i \in 1 .. Len(c.sys) : c.sys[i].fn = "malloc" => c.sys[i].arg = SEEK_BUFFER_SIZE
C7_RegionSelection ==
    [][call'.op = "get"
        => IF End(call') <= SB_BUFFER_SIZE
           THEN ServedBySb(id, id', call')
           ELSE ServedBySeek(id, id', call')]_vars

\* C8 as stated: after a release any call, whatever its offset and length,
\* reads the source.
C8_Original ==
    [][(prev.op = "free" /\ call'.op = "get") => Reads(call') >= 1]_vars

\* C8 amended: after a release the next call issues exactly one read whenever
\* it reaches the source with a range that is not empty: on the front region
\* when (offset + length) mod 2^64 >= 1, on the window region when
\* 1 <= length <= C_window and the seek does not fail, in both cases provided
\* the buffer allocation succeeds.
C8_ReadAfterRelease ==
    [][(/\ prev.op = "free" /\ call'.op = "get"
        /\ ~MallocFailed(call')
        /\ \/ End64(call') <= SB_BUFFER_SIZE /\ End64(call') >= 1
           \/ /\ End64(call') > SB_BUFFER_SIZE
              /\ call'.len >= 1 /\ call'.len <= SEEK_BUFFER_SIZE
              /\ ~SeekFailed(call'))
        => Reads(call') = 1]_vars
\* a release that freed both buffers, then a call that read and returned a view
C8_Witness ==
    /\ call.op = "get" /\ prev.op = "free"
    /\ call.ret.ok /\ call.len >= 1
    /\ Reads(call) = 1

\* C9: a release leaves both buffers unallocated and both valid lengths 0,
\* performs no seek or read and leaves the source's position alone; a second
\* release, or one on a cache never used, changes nothing.
C9_Release ==
    [][call'.op = "free"
        => /\ id'.sbbuf = NULL /\ id'.sbbuf_len = 0
           /\ id'.seekbuf = NULL /\ id'.seekbuf_len = 0
           /\ NoIo(call') /\ fdpos' = fdpos /\ src' = src
           /\ volume_id_free_buffer(id') = id'
           /\ prev.op \in {"free", "none"} => (id' = id /\ call'.sys = <<>>)]_vars
\* a release that freed both buffers, each holding data
C9_Witness ==
    /\ call.op = "free" /\ prev.op = "get"
    /\ Len(call.sys) = 2
    /\ id.sbbuf = NULL /\ id.seekbuf = NULL
    /\ fdpos >= 1

\* C10: when the read of a refill reports an error, the call fails and the
\* region's valid length keeps the value it had before the call.
C10_ReadError ==
    [][(call'.op = "get" /\ ReadFailed(call'))
        => /\ ~call'.ret.ok
           /\ id'.sbbuf_len = id.sbbuf_len
           /\ id'.seekbuf_len = id.seekbuf_len]_vars

\* the valid length of the region the dispatcher sent call c to
RegionLen(st, c) == IF End64(c) <= SB_BUFFER_SIZE THEN st.sbbuf_len ELSE st.seekbuf_len

\* C11: when the seek of a refill reports an error, in either region, the
\* call fails and that region's valid length is 0 afterwards.
C11_SeekError ==
    [][(call'.op = "get" /\ SeekFailed(call'))
        => (~call'.ret.ok /\ RegionLen(id', call') = 0)]_vars

\* C12: when the allocation of a region's buffer fails inside a call, the
\* call fails, that region stays unallocated with valid length 0, no seek or
\* read is issued and the other region's state is unchanged.
C12_AllocFailure ==
    [][(call'.op = "get" /\ MallocFailed(call'))
        => /\ ~call'.ret.ok /\ NoIo(call') /\ fdpos' = fdpos
           /\ IF End64(call') <= SB_BUFFER_SIZE
              THEN /\ id'.sbbuf = NULL /\ id'.sbbuf_len = 0
                   /\ Window(id') = Window(id)
              ELSE /\ id'.seekbuf = NULL /\ id'.seekbuf_len = 0
                   /\ Front(id') = Front(id)]_vars
\* the front buffer could not be allocated while the window holds data
C12_Witness ==
    /\ call.op = "get" /\ MallocFailed(call) /\ ~call.ret.ok
    /\ End(call) <= SB_BUFFER_SIZE /\ call.len >= 1
    /\ id.sbbuf = NULL
    /\ id.seekbuf.alloc /\ id.seekbuf_len >= 1

\* C13: in every state reached by calls and releases, including calls whose
\* seek or read reports an error or a short count, the front valid length is
\* <= C_front and the window valid length is <= C_window.
C13_Capacity ==
    id.sbbuf_len <= SB_BUFFER_SIZE /\ id.seekbuf_len <= SEEK_BUFFER_SIZE

\* the read of call c and the bytes it got
ReadGot(c) == CallOf(c.sys, "read").res

\* C14: when a window refill for (offset, length) reads k bytes with
\* 0 < k < length, the call fails but leaves window_offset = offset and
\* valid length k; a following window-region call whose range lies inside
\* [offset, offset + k) succeeds from the cache with no seek and no read and
\* shows the source's bytes.
C14_PartialWindow ==
    [][(call'.op = "get" /\ End(call') > SB_BUFFER_SIZE)
        => /\ (/\ End64(call') > SB_BUFFER_SIZE /\ HasCall(call'.sys, "read")
               /\ 0 < ReadGot(call') /\ ReadGot(call') < call'.len)
              => (/\ ~call'.ret.ok
                  /\ id'.seekbuf_off = call'.off
                  /\ id'.seekbuf_len = ReadGot(call'))
           /\ (/\ prev.op = "wshort"
               /\ id.seekbuf_off <= call'.off
               /\ End(call') <= id.seekbuf_off + prev.got)
              => (/\ call'.ret.ok /\ call'.sys = <<>>
                  /\ ShowsSource(id', src, call'))]_vars
\* right after a window refill that came back short, a call for the bytes
\* it did get is answered from the cache
C14_Witness ==
    /\ call.op = "get" /\ prev.op = "wshort"
    /\ call.ret.ok /\ call.ret.buf = "seekbuf" /\ call.len >= 1
    /\ call.off = id.seekbuf_off /\ call.len = prev.got
    /\ call.sys = <<>>

\* C15: a front-region call with offset + length > valid length seeks the
\* source to offset 0, issues one read of up to offset + length bytes (not
\* C_front bytes) into the start of the front buffer, sets the valid length
\* to the number of bytes read, and fails exactly when that number is less
\* than offset + length.
C15_FrontRefill ==
    [][(call'.op = "get" /\ End(call') <= SB_BUFFER_SIZE /\ End(call') > id.sbbuf_len)
        => /\ Len(IoOf(call')) = 2
           /\ IoOf(call')[1] = SysCall("lseek", 0, 0)
           /\ IoOf(call')[2].fn = "read" /\ IoOf(call')[2].arg = End(call')
           /\ ReadGot(call') = Min(End(call'), Len(src))
           /\ id'.sbbuf_len = ReadGot(call')
           /\ \A i \in 1 .. ReadGot(call') : id'.sbbuf.mem[i] = src[i]
           /\ ~call'.ret.ok <=> ReadGot(call') < End(call')]_vars
\* a front buffer allocated by an earlier call has been refilled, with
\* success, by a read of fewer than C_front bytes
C15_Witness ==
    /\ call.op = "get" /\ call.ret.ok /\ call.ret.buf = "sbbuf"
    /\ call.off >= 1 /\ End(call) < SB_BUFFER_SIZE
    /\ call.sys = <<SysCall("lseek", 0, 0), SysCall("read", End(call), End(call))>>
    /\ prev.op = "get"

\* C16: a call served by the front region, whether it hits, refills or
\* fails, leaves the window buffer, window_offset and the window valid length
\* unchanged, and a call served by the window region leaves the front buffer
\* and the front valid length unchanged.
C16_RegionIndependence ==
    [][call'.op = "get"
        => IF End64(call') <= SB_BUFFER_SIZE
           THEN Window(id') = Window(id)
           ELSE Front(id') = Front(id)]_vars
\* a window refill has replaced the window's bytes while the front buffer
\* holds bytes read earlier
C16_Witness ==
    /\ call.op = "get" /\ End64(call) > SB_BUFFER_SIZE
    /\ Reads(call) = 1 /\ call.ret.ok /\ call.len >= 1
    /\ ~HasCall(call.sys, "malloc")
    /\ id.sbbuf.alloc /\ id.sbbuf_len >= 1 /\ id.sbbuf_len <= SB_BUFFER_SIZE

\* C17: for every offset and length, the sum taken modulo 2^64 where the
\* code takes it, every view a call returns lies inside the valid bytes of
\* the region that served it: offset + length (the true sum) <= front valid
\* length <= C_front for the front region, and window_offset <= offset and
\* offset + length <= window_offset + valid length for the window region.
C17_ViewBounds ==
    (call.op = "get" /\ call.ret.ok)
        => IF call.ret.buf = "sbbuf"
           THEN End(call) <= id.sbbuf_len /\ id.sbbuf_len <= SB_BUFFER_SIZE
           ELSE /\ id.seekbuf_off <= call.off
                /\ End(call) <= id.seekbuf_off + id.seekbuf_len

\* C18: in every state reached by calls and releases, also after failed
\* allocations, a region whose buffer is unallocated has valid length 0; so
\* a release, which resets a length only when the buffer is allocated, never
\* leaves a non-zero length on an unallocated region.
C18_UnallocatedEmpty ==
    /\ ~id.sbbuf.alloc => id.sbbuf_len = 0
    /\ ~id.seekbuf.alloc => id.seekbuf_len = 0
\* after a failure of malloc, lseek or read, a release has found one buffer
\* allocated and freed it and has skipped the other, unallocated one
C18_Witness ==
    /\ call.op = "free" /\ Len(call.sys) = 1 /\ faults >= 1
    /\ ~id.sbbuf.alloc /\ id.sbbuf_len = 0
    /\ ~id.seekbuf.alloc /\ id.seekbuf_len = 0

\* the reads of call c ask for no more bytes than the buffer they go to holds
ReadsFit(c) ==
    \A i \in 1 .. Len(c.sys) :
        c.sys[i].fn = "read"
            => c.sys[i].arg <= (IF End64(c) <= SB_BUFFER_SIZE THEN SB_BUFFER_SIZE
                                                             ELSE SEEK_BUFFER_SIZE)

\* C19: every call issues at most one read against the source, and the byte
\* count it asks for never exceeds the capacity of the buffer it reads into
\* (C_front for the front region, C_window for the window region).
C19_BoundedIO ==
    [][call'.op = "get" => (Reads(call') <= 1 /\ ReadsFit(call'))]_vars
\* both buffers have been filled to their capacity, the window by the read
\* of this call
C19_Witness ==
    /\ call.op = "get" /\ call.ret.ok /\ call.ret.buf = "seekbuf"
    /\ HasCall(call.sys, "read") /\ ReadGot(call) = SEEK_BUFFER_SIZE
    /\ id.sbbuf_len = SB_BUFFER_SIZE

\* C20: a release does not reset window_offset, yet the first call after a
\* release with length >= 1, on either region, never returns a view without
\* having seeked and read the source in that same call.
C20_NoStaleHit ==
    [][(prev.op = "free" /\ call'.op = "get" /\ call'.len >= 1 /\ call'.ret.ok)
        => (HasCall(call'.sys, "lseek") /\ HasCall(call'.sys, "read"))]_vars

====
